---- MODULE Spec2Model ----
(***************************************************************************)
(* Model of the GameClient class of src/game.js: the browser client of a   *)
(* multiplayer world.  One action per event handler (channel open /        *)
(* message / close / error, key down / up, click, resize, image load);     *)
(* every action is the whole handler, the redraw at its end included.      *)
(*                                                                         *)
(* Conventions                                                             *)
(*  - a JavaScript object used as a table (players, avatars, frames) is a  *)
(*    function whose DOMAIN is the set of keys present;                    *)
(*  - null / undefined object references are the record Null;              *)
(*  - the insertion-ordered Set pressedKeys is a duplicate-free sequence;  *)
(*  - websocket.send(JSON.stringify(m)) puts the record m on the channel:  *)
(*    every command is a flat record of strings and finite integers, for   *)
(*    which the JSON text determines the record and conversely;            *)
(*  - surface widths and heights are even, so that width / 2 is the        *)
(*    integer width \div 2 (JavaScript numbers are reals here).            *)
(***************************************************************************)
EXTENDS Integers, Sequences, FiniteSets, TLC

VARIABLES
    wsState,        \* websocket.readyState: "CONNECTING", "OPEN", "CLOSED"
    myPlayerId,     \* this.myPlayerId (NullId when null)
    myPlayer,       \* this.myPlayer: the record object bound at join (Null when null/undefined)
    players,        \* this.players: id -> player record
    avatars,        \* this.avatars: name -> avatar record
    viewportX,      \* this.viewportX
    viewportY,      \* this.viewportY
    canvasWidth,    \* this.canvas.width
    canvasHeight,   \* this.canvas.height
    pressedKeys,    \* this.pressedKeys, in insertion order
    playerCount,    \* the number shown by playerCountElement.textContent
    pendingLoads,   \* Image objects created by drawAvatar whose onload has not fired
    worldImageLoaded, \* whether worldImage.onload has fired
    assetsOnline,   \* environment: whether image requests are answered at all
    sent,           \* messages handed to websocket.send by the most recent handler
    drawCalls,      \* drawing-context calls issued by the most recent handler
    threw,          \* whether the most recent handler ended by raising an exception
    lastEvent,      \* the event the most recent handler was called with
    heldSince,      \* history: rank of each key's current hold among the holds in progress
    history         \* history of the channel: what has been sent so far, in summary

vars == << wsState, myPlayerId, myPlayer, players, avatars, viewportX, viewportY,
           canvasWidth, canvasHeight, pressedKeys, playerCount, pendingLoads,
           worldImageLoaded, assetsOnline, sent, drawCalls, threw, lastEvent,
           heldSince, history >>

---------------------------------------------------------------------------
(* Program constants *)

worldWidth == 2048

worldHeight == 2048

avatarSize == 32

keyToDirection ==
    [k \in {"ArrowUp", "ArrowDown", "ArrowLeft", "ArrowRight"} |->
        CASE k = "ArrowUp" -> "up"
          [] k = "ArrowDown" -> "down"
          [] k = "ArrowLeft" -> "left"
          [] k = "ArrowRight" -> "right"]

JoinUsername == "Rita"

Null == [null |-> TRUE]

NullId == "null"

---------------------------------------------------------------------------
(* Arithmetic of the JavaScript Math object *)

MathMax(a, b) == IF a >= b THEN a ELSE b

MathMin(a, b) == IF a <= b THEN a ELSE b

---------------------------------------------------------------------------
(* The insertion-ordered Set this.pressedKeys *)

SeqRange(s) == {s[i] : i \in 1..Len(s)}

\* Set.prototype.add: appends a new element, leaves a present one in place.
SetAdd(s, k) == IF k \in SeqRange(s) THEN s ELSE Append(s, k)

\* Set.prototype.delete
SetDelete(s, k) == SelectSeq(s, LAMBDA e : e # k)

---------------------------------------------------------------------------
(* Outbound commands.  Each operator is the sequence of messages the       *)
(* function hands to websocket.send when the channel is in state ws.       *)

JoinMessage == [action |-> "join_game", username |-> JoinUsername]

\* Variant: sendMoveCommand without the readyState guard.
sendMoveCommandUnguarded(ws, direction) ==
    << [action |-> "move", direction |-> direction] >>

sendMoveCommand(ws, direction) ==
    IF ws # "OPEN" THEN << >>
    ELSE << [action |-> "move", direction |-> direction] >>

\* Variant: sendStopCommand that sends nothing.
sendStopCommandDropped(ws) == << >>

sendStopCommand(ws) ==
    IF ws # "OPEN" THEN << >>
    ELSE << [action |-> "stop"] >>

\* Variant: sendClickToMove that sends the world coordinate as it is.
sendClickToMoveUnclamped(ws, x, y) ==
    IF ws # "OPEN" THEN << >>
    ELSE << [action |-> "move", x |-> x, y |-> y] >>

sendClickToMove(ws, x, y) ==
    IF ws # "OPEN" THEN << >>
    ELSE << [action |-> "move",
             x |-> MathMax(0, MathMin(x, worldWidth)),
             y |-> MathMax(0, MathMin(y, worldHeight))] >>

\* Variant: sendMovementCommand that takes the last direction pressed.
sendMovementCommandLast(ws, keys) ==
    IF Len(keys) = 0 THEN << >>
    ELSE sendMoveCommand(ws, keyToDirection[keys[Len(keys)]])

sendMovementCommand(ws, keys) ==
    IF Len(keys) = 0 THEN << >>
    ELSE sendMoveCommand(ws, keyToDirection[keys[1]])

---------------------------------------------------------------------------
(* Camera *)

\* Variant: centerViewportOnPlayer without the lower bound Math.max(0, ...).
CenterAxisUnfloored(pos, surface, world) ==
    MathMin(pos - surface \div 2, world - surface)

\* Variant: centerViewportOnPlayer without the upper bound Math.min(..., world - surface).
CenterAxisUncapped(pos, surface, world) ==
    MathMax(0, pos - surface \div 2)

\* centerViewportOnPlayer, one axis: centre, then constrain to the world.
CenterAxis(pos, surface, world) ==
    MathMax(0, MathMin(pos - surface \div 2, world - surface))

\* centerViewportOnPlayer: the new <<viewportX, viewportY>>.
centerViewportOnPlayer(mp, vx, vy, w, h) ==
    IF mp = Null THEN << vx, vy >>
    ELSE << CenterAxis(mp.x, w, worldWidth), CenterAxis(mp.y, h, worldHeight) >>

worldToScreen(vx, vy, worldX, worldY) == [x |-> worldX - vx, y |-> worldY - vy]

\* Variant: isInViewport with the margin's bounds excluded.
isInViewportStrict(vx, vy, w, h, worldX, worldY) ==
    LET screen == worldToScreen(vx, vy, worldX, worldY)
    IN  /\ screen.x > -avatarSize
        /\ screen.x < w + avatarSize
        /\ screen.y > -avatarSize
        /\ screen.y < h + avatarSize

isInViewport(vx, vy, w, h, worldX, worldY) ==
    LET screen == worldToScreen(vx, vy, worldX, worldY)
    IN  /\ screen.x >= -avatarSize
        /\ screen.x <= w + avatarSize
        /\ screen.y >= -avatarSize
        /\ screen.y <= h + avatarSize

---------------------------------------------------------------------------
(* Renderer.  A redraw yields the drawing-context calls it issues, the     *)
(* Image loads it starts, and whether it ended by raising.                 *)

NoDraw == [calls |-> {}, loads |-> {}, threw |-> FALSE]

\* drawAvatar: starts an image load, returns early, or raises a TypeError
\* when the avatar record carries no frames table.
drawAvatar(player, av, screenX, screenY) ==
    IF player.avatar \notin DOMAIN av THEN NoDraw
    ELSE LET avatar == av[player.avatar]
         IN  IF ~avatar.hasFrames THEN [NoDraw EXCEPT !.threw = TRUE]
             ELSE IF player.facing \notin DOMAIN avatar.frames THEN NoDraw
             ELSE LET frames == avatar.frames[player.facing]
                  IN  IF player.animationFrame + 1 \notin DOMAIN frames THEN NoDraw
                      ELSE [NoDraw EXCEPT !.loads =
                               {[player |-> player, screenX |-> screenX,
                                 screenY |-> screenY,
                                 src |-> frames[player.animationFrame + 1]]}]

\* drawPlayerName: strokeText and fillText of the username above the head.
drawPlayerName(player, screenX, screenY) ==
    {[op |-> "label", id |-> player.id, text |-> player.username,
      x |-> screenX, y |-> screenY - avatarSize - 5]}

\* The body of the forEach callback of drawPlayers for one player.
DrawPlayer(player, av, vx, vy, w, h) ==
    IF ~isInViewport(vx, vy, w, h, player.x, player.y) THEN NoDraw
    ELSE LET screenPos == worldToScreen(vx, vy, player.x, player.y)
             a == drawAvatar(player, av, screenPos.x, screenPos.y)
         IN  IF a.threw THEN a
             ELSE [a EXCEPT !.calls = drawPlayerName(player, screenPos.x, screenPos.y)]

\* drawPlayers over the players in iteration order ord, from index i on:
\* an exception ends the iteration.
RECURSIVE drawPlayers(_, _, _, _, _, _, _, _)
drawPlayers(pl, av, vx, vy, w, h, ord, i) ==
    IF i > Len(ord) THEN NoDraw
    ELSE LET one == DrawPlayer(pl[ord[i]], av, vx, vy, w, h)
         IN  IF one.threw THEN one
             ELSE LET rest == drawPlayers(pl, av, vx, vy, w, h, ord, i + 1)
                  IN  [calls |-> one.calls \cup rest.calls,
                       loads |-> one.loads \cup rest.loads,
                       threw |-> rest.threw]

\* The orders in which Object.values may enumerate a table with key set S.
RECURSIVE Orders(_)
Orders(S) ==
    IF S = {} THEN {<< >>}
    ELSE UNION {{<< k >> \o o : o \in Orders(S \ {k})} : k \in S}

\* draw: clearRect, the world map through the viewport, then the players.
draw(pl, av, vx, vy, w, h, ord) ==
    LET d == drawPlayers(pl, av, vx, vy, w, h, ord, 1)
    IN  [d EXCEPT !.calls =
            {[op |-> "clearRect", w |-> w, h |-> h],
             [op |-> "map", sx |-> vx, sy |-> vy, w |-> w, h |-> h]} \cup d.calls]

\* The outcomes of draw() on the given state, one per enumeration order.
DrawOutcomes(pl, av, vx, vy, w, h) ==
    {draw(pl, av, vx, vy, w, h, ord) : ord \in Orders(DOMAIN pl)}

---------------------------------------------------------------------------
(* Records and messages of the protocol *)

\* Each player wears the avatar of its own number.
AvatarOf(id) == IF id = "p1" THEN "a1" ELSE "a2"

PlayerRecord(id, pos, facing) ==
    [id |-> id, username |-> id, x |-> pos[1], y |-> pos[2],
     facing |-> facing, animationFrame |-> 0, avatar |-> AvatarOf(id)]

PlayerRecordsOver(id, positions, facings) ==
    {PlayerRecord(id, pos, f) : pos \in positions, f \in facings}

\* Player tables: every id of the key set mapped to a record of that id.
PlayerTablesOver(ids, positions, facings) ==
    UNION {{t \in [S -> UNION {PlayerRecordsOver(id, positions, facings) : id \in S}] :
               \A id \in S : t[id].id = id} : S \in SUBSET ids}

\* An avatar with the frame sequences the server ships (none for "left").
AvatarRecord(name) ==
    [name |-> name, hasFrames |-> TRUE,
     frames |-> [up |-> << name \o "_up_0" >>, right |-> << name \o "_right_0" >>]]

\* An avatar that ships a frame sequence of its own for "left" as well.
AvatarWithLeft(name) ==
    [name |-> name, hasFrames |-> TRUE,
     frames |-> [up |-> << name \o "_up_0" >>, right |-> << name \o "_right_0" >>,
                 left |-> << name \o "_left_0" >>]]

\* An avatar record without the optional frames table.
BareAvatar(name) == [name |-> name, hasFrames |-> FALSE, frames |-> << >>]

\* join_game results: the successful ones carry the id of a player of the
\* table they bring; a rejection carries nothing else.
JoinResultsOver(tables, avatarTables) ==
    UNION {{[action |-> "join_game", success |-> TRUE, playerId |-> id,
             players |-> P, avatars |-> A] : id \in DOMAIN P, A \in avatarTables} :
           P \in tables}
    \cup {[action |-> "join_game", success |-> FALSE]}

\* The avatar field of a player_joined message: the avatar as shipped, the
\* avatar without its frames table, or no avatar at all.
AvatarShaped(name, shape) ==
    CASE shape = "shipped" -> AvatarRecord(name)
      [] shape = "withLeft" -> AvatarWithLeft(name)
      [] shape = "bare" -> BareAvatar(name)
      [] OTHER -> Null

PlayerJoinedOver(records, shapes) ==
    {[action |-> "player_joined", player |-> p,
      avatar |-> AvatarShaped(p.avatar, shape)] : p \in records, shape \in shapes}

PlayersMovedOver(tables) ==
    {[action |-> "players_moved", players |-> M] : M \in tables}

PlayerLeftOver(ids) ==
    {[action |-> "player_left", playerId |-> id] : id \in ids}

OtherMessages == {[action |-> "chat"]}

---------------------------------------------------------------------------
(* Bounds *)

\* At most this many started image loads are followed to their completion.
MaxPending == 1

---------------------------------------------------------------------------
(* Entity tables *)

\* table[key] = value
Upsert(table, key, value) ==
    [k \in DOMAIN table \cup {key} |-> IF k = key THEN value ELSE table[k]]

\* Variant: the table replaced by the source instead of merged with it.
ObjectAssignReplacing(table, source) == source

\* Object.assign(table, source)
ObjectAssign(table, source) ==
    [k \in DOMAIN table \cup DOMAIN source |->
        IF k \in DOMAIN source THEN source[k] ELSE table[k]]

\* Variant: a removal that empties the table.
DeleteKeyClearing(table, key) == IF key \in DOMAIN table THEN << >> ELSE table

\* delete table[key]
DeleteKey(table, key) == [k \in DOMAIN table \ {key} |-> table[k]]

\* Object.keys(table).length
CountKeys(table) == Cardinality(DOMAIN table)

---------------------------------------------------------------------------
(* Pieces shared by the handlers *)

\* A handler that neither draws nor raises.
NoRedraw ==
    /\ drawCalls' = {}
    /\ threw' = FALSE
    /\ UNCHANGED pendingLoads

\* The image loads still followed once the loads of a redraw are added: all
\* of them while they are at most MaxPending, else MaxPending of them (a load
\* that is dropped is one that never completes); none when no image request
\* is answered.
FollowedLoads(loads) ==
    IF Cardinality(loads) <= MaxPending THEN {loads}
    ELSE {keep \in SUBSET loads : Cardinality(keep) = MaxPending}

\* this.draw() on the state the handler has produced.
Redraw(pl, av, vx, vy, w, h) ==
    \E d \in DrawOutcomes(pl, av, vx, vy, w, h) :
        /\ drawCalls' = d.calls
        /\ threw' = d.threw
        /\ pendingLoads' \in FollowedLoads(IF assetsOnline
                                            THEN pendingLoads \cup d.loads ELSE {})

\* The rank of key k's hold after a key-down of k: a key that is not held
\* starts the newest hold, a held key keeps its rank.
RanksAfterDown(ranks, k) ==
    IF ranks[k] > 0 THEN ranks
    ELSE [ranks EXCEPT ![k] = 1 + Cardinality({j \in DOMAIN ranks : ranks[j] > 0})]

\* ... and after a key-up of k: the holds newer than k's move up one rank.
RanksAfterUp(ranks, k) ==
    [j \in DOMAIN ranks |->
        IF j = k THEN 0
        ELSE IF ranks[k] > 0 /\ ranks[j] > ranks[k] THEN ranks[j] - 1
        ELSE ranks[j]]

\* The summary of the channel's history once a handler has sent the
\* messages out: the discriminant of the last command sent by a key handler,
\* the number of join requests sent, and the discriminant of the first
\* message ever sent on the channel.
HistoryAfter(h, out, keyDriven) ==
    LET joinAt == {i \in 1..Len(out) : out[i].action = "join_game"}
    IN  [lastKeyCommand |-> IF keyDriven /\ out # << >>
                            THEN out[Len(out)].action ELSE h.lastKeyCommand,
         joinsSent |-> h.joinsSent + Cardinality(joinAt),
         firstSent |-> IF h.firstSent = "none" /\ out # << >>
                       THEN out[1].action ELSE h.firstSent]

---------------------------------------------------------------------------
(* Channel lifecycle *)

\* Variant: websocket.onopen without the call of joinGame().
OnOpenSilent ==
    /\ wsState = "CONNECTING"
    /\ wsState' = "OPEN"
    /\ sent' = << >>
    /\ lastEvent' = [type |-> "open"]
    /\ NoRedraw
    /\ UNCHANGED << myPlayerId, myPlayer, players, avatars, viewportX, viewportY,
                    canvasWidth, canvasHeight, pressedKeys, playerCount,
                    worldImageLoaded, assetsOnline, heldSince >>
    /\ history' = HistoryAfter(history, sent', FALSE)

\* websocket.onopen: joinGame()
OnOpen ==
    /\ wsState = "CONNECTING"
    /\ wsState' = "OPEN"
    /\ sent' = << JoinMessage >>
    /\ lastEvent' = [type |-> "open"]
    /\ NoRedraw
    /\ UNCHANGED << myPlayerId, myPlayer, players, avatars, viewportX, viewportY,
                    canvasWidth, canvasHeight, pressedKeys, playerCount,
                    worldImageLoaded, assetsOnline, heldSince >>
    /\ history' = HistoryAfter(history, sent', FALSE)

\* websocket.onerror: the connection has failed; the handler logs.
OnError ==
    /\ wsState \in {"CONNECTING", "OPEN"}
    /\ wsState' = "CLOSED"
    /\ sent' = << >>
    /\ lastEvent' = [type |-> "error"]
    /\ NoRedraw
    /\ UNCHANGED << myPlayerId, myPlayer, players, avatars, viewportX, viewportY,
                    canvasWidth, canvasHeight, pressedKeys, playerCount,
                    worldImageLoaded, assetsOnline, heldSince >>
    /\ history' = HistoryAfter(history, sent', FALSE)

\* websocket.onclose, after a clean close or after the error event: logs.
OnClose ==
    /\ wsState \in {"CONNECTING", "OPEN"} \/ lastEvent.type = "error"
    /\ wsState' = "CLOSED"
    /\ sent' = << >>
    /\ lastEvent' = [type |-> "close"]
    /\ NoRedraw
    /\ UNCHANGED << myPlayerId, myPlayer, players, avatars, viewportX, viewportY,
                    canvasWidth, canvasHeight, pressedKeys, playerCount,
                    worldImageLoaded, assetsOnline, heldSince >>
    /\ history' = HistoryAfter(history, sent', FALSE)

---------------------------------------------------------------------------
(* Input *)

handleKeyDown(code) ==
    /\ lastEvent' = [type |-> "keydown", code |-> code]
    /\ IF code \notin DOMAIN keyToDirection
       THEN /\ sent' = << >>
            /\ UNCHANGED << pressedKeys, heldSince >>
       ELSE /\ pressedKeys' = SetAdd(pressedKeys, code)
            /\ sent' = sendMovementCommand(wsState, pressedKeys')
            /\ heldSince' = RanksAfterDown(heldSince, code)
    /\ NoRedraw
    /\ UNCHANGED << wsState, myPlayerId, myPlayer, players, avatars, viewportX,
                    viewportY, canvasWidth, canvasHeight, playerCount,
                    worldImageLoaded, assetsOnline >>
    /\ history' = HistoryAfter(history, sent', TRUE)

handleKeyUp(code) ==
    /\ lastEvent' = [type |-> "keyup", code |-> code]
    /\ IF code \notin DOMAIN keyToDirection
       THEN /\ sent' = << >>
            /\ UNCHANGED << pressedKeys, heldSince >>
       ELSE /\ pressedKeys' = SetDelete(pressedKeys, code)
            /\ sent' = IF Len(pressedKeys') = 0
                       THEN sendStopCommand(wsState)
                       ELSE sendMovementCommand(wsState, pressedKeys')
            /\ heldSince' = RanksAfterUp(heldSince, code)
    /\ NoRedraw
    /\ UNCHANGED << wsState, myPlayerId, myPlayer, players, avatars, viewportX,
                    viewportY, canvasWidth, canvasHeight, playerCount,
                    worldImageLoaded, assetsOnline >>
    /\ history' = HistoryAfter(history, sent', TRUE)

\* handleCanvasClick at canvas-relative (clickX, clickY); the click
\* indicator it adds to the page is outside the model.
handleCanvasClick(clickX, clickY) ==
    /\ lastEvent' = [type |-> "click", x |-> clickX, y |-> clickY]
    /\ sent' = sendClickToMove(wsState, clickX + viewportX, clickY + viewportY)
    /\ NoRedraw
    /\ UNCHANGED << wsState, myPlayerId, myPlayer, players, avatars, viewportX,
                    viewportY, canvasWidth, canvasHeight, pressedKeys, playerCount,
                    worldImageLoaded, assetsOnline, heldSince >>
    /\ history' = HistoryAfter(history, sent', FALSE)

---------------------------------------------------------------------------
(* Surface and images *)

\* resizeCanvas on a window resize to w x h
resizeCanvas(w, h) ==
    /\ lastEvent' = [type |-> "resize", w |-> w, h |-> h]
    /\ canvasWidth' = w
    /\ canvasHeight' = h
    /\ LET v == centerViewportOnPlayer(myPlayer, viewportX, viewportY, w, h)
       IN  /\ viewportX' = v[1]
           /\ viewportY' = v[2]
    /\ Redraw(players, avatars, viewportX', viewportY', w, h)
    /\ sent' = << >>
    /\ UNCHANGED << wsState, myPlayerId, myPlayer, players, avatars, pressedKeys,
                    playerCount, worldImageLoaded, assetsOnline, heldSince >>
    /\ history' = HistoryAfter(history, sent', FALSE)

\* worldImage.onload: draw()
WorldImageOnload ==
    /\ assetsOnline
    /\ ~worldImageLoaded
    /\ worldImageLoaded' = TRUE
    /\ lastEvent' = [type |-> "worldload"]
    /\ Redraw(players, avatars, viewportX, viewportY, canvasWidth, canvasHeight)
    /\ sent' = << >>
    /\ UNCHANGED << wsState, myPlayerId, myPlayer, players, avatars, viewportX,
                    viewportY, canvasWidth, canvasHeight, pressedKeys, playerCount,
                    assetsOnline, heldSince >>
    /\ history' = HistoryAfter(history, sent', FALSE)

\* The drawImage call of img.onload for the load started by drawAvatar: the
\* sprite is anchored bottom-centre at the screen position captured then.
SpriteCall(load) ==
    [op |-> "sprite", id |-> load.player.id, src |-> load.src,
     x |-> load.screenX, y |-> load.screenY,
     mirrored |-> (load.player.facing = "west")]

\* img.onload of one pending image
ImageOnload(load) ==
    /\ load \in pendingLoads
    /\ pendingLoads' = pendingLoads \ {load}
    /\ drawCalls' = {SpriteCall(load)}
    /\ threw' = FALSE
    /\ lastEvent' = [type |-> "imgload", load |-> load]
    /\ sent' = << >>
    /\ UNCHANGED << wsState, myPlayerId, myPlayer, players, avatars, viewportX,
                    viewportY, canvasWidth, canvasHeight, pressedKeys, playerCount,
                    worldImageLoaded, assetsOnline, heldSince >>
    /\ history' = HistoryAfter(history, sent', FALSE)

---------------------------------------------------------------------------
(* Inbound messages: the cases of the switch of handleServerMessage *)

\* Variant: case 'join_game' merging the snapshot into the tables it finds.
JoinGameCaseMerging(m) ==
    IF m.success
    THEN /\ myPlayerId' = m.playerId
         /\ players' = ObjectAssign(players, m.players)
         /\ avatars' = ObjectAssign(avatars, m.avatars)
         /\ myPlayer' = IF m.playerId \in DOMAIN m.players
                        THEN m.players[m.playerId] ELSE Null
         /\ LET v == centerViewportOnPlayer(myPlayer', viewportX, viewportY,
                                            canvasWidth, canvasHeight)
            IN  /\ viewportX' = v[1]
                /\ viewportY' = v[2]
         /\ playerCount' = CountKeys(players')
         /\ Redraw(players', avatars', viewportX', viewportY', canvasWidth, canvasHeight)
    ELSE /\ NoRedraw
         /\ UNCHANGED << myPlayerId, myPlayer, players, avatars, viewportX,
                         viewportY, playerCount >>

\* case 'join_game'
JoinGameCase(m) ==
    IF m.success
    THEN /\ myPlayerId' = m.playerId
         /\ players' = m.players
         /\ avatars' = m.avatars
         /\ myPlayer' = IF m.playerId \in DOMAIN m.players
                        THEN m.players[m.playerId] ELSE Null
         /\ LET v == centerViewportOnPlayer(myPlayer', viewportX, viewportY,
                                            canvasWidth, canvasHeight)
            IN  /\ viewportX' = v[1]
                /\ viewportY' = v[2]
         /\ playerCount' = CountKeys(players')
         /\ Redraw(players', avatars', viewportX', viewportY', canvasWidth, canvasHeight)
    ELSE /\ NoRedraw
         /\ UNCHANGED << myPlayerId, myPlayer, players, avatars, viewportX,
                         viewportY, playerCount >>

\* case 'player_joined': reading message.avatar.name raises when the message
\* carries no avatar, after the player has been stored.
PlayerJoinedCase(m) ==
    /\ players' = Upsert(players, m.player.id, m.player)
    /\ IF m.avatar = Null
       THEN /\ threw' = TRUE
            /\ drawCalls' = {}
            /\ UNCHANGED << avatars, playerCount, pendingLoads >>
       ELSE /\ avatars' = Upsert(avatars, m.avatar.name, m.avatar)
            /\ playerCount' = CountKeys(players')
            /\ Redraw(players', avatars', viewportX, viewportY, canvasWidth, canvasHeight)
    /\ UNCHANGED << myPlayerId, myPlayer, viewportX, viewportY >>

\* case 'players_moved'
PlayersMovedCase(m) ==
    /\ players' = ObjectAssign(players, m.players)
    /\ Redraw(players', avatars, viewportX, viewportY, canvasWidth, canvasHeight)
    /\ UNCHANGED << myPlayerId, myPlayer, avatars, viewportX, viewportY, playerCount >>

\* case 'player_left'
PlayerLeftCase(m) ==
    /\ players' = DeleteKey(players, m.playerId)
    /\ playerCount' = CountKeys(players')
    /\ Redraw(players', avatars, viewportX, viewportY, canvasWidth, canvasHeight)
    /\ UNCHANGED << myPlayerId, myPlayer, avatars, viewportX, viewportY >>

\* Variant: an unmatched discriminant that empties the player table.
NoCaseClearing ==
    /\ NoRedraw
    /\ players' = << >>
    /\ UNCHANGED << myPlayerId, myPlayer, avatars, viewportX, viewportY, playerCount >>

\* no case of the switch matches
NoCase ==
    /\ NoRedraw
    /\ UNCHANGED << myPlayerId, myPlayer, players, avatars, viewportX, viewportY,
                    playerCount >>

\* websocket.onmessage: handleServerMessage(JSON.parse(event.data))
handleServerMessage(m) ==
    /\ wsState = "OPEN"
    /\ lastEvent' = [type |-> "message", message |-> m]
    /\ sent' = << >>
    /\ \/ m.action = "join_game" /\ JoinGameCase(m)
       \/ m.action = "player_joined" /\ PlayerJoinedCase(m)
       \/ m.action = "players_moved" /\ PlayersMovedCase(m)
       \/ m.action = "player_left" /\ PlayerLeftCase(m)
       \/ m.action \notin {"join_game", "player_joined", "players_moved", "player_left"}
          /\ NoCase
    /\ UNCHANGED << wsState, canvasWidth, canvasHeight, pressedKeys,
                    worldImageLoaded, assetsOnline, heldSince >>
    /\ history' = HistoryAfter(history, sent', FALSE)

---------------------------------------------------------------------------
(* Environments: the alphabets the events of a run are drawn from *)

\* Positions in two corners of the world.
Positions == {<< 10, 10 >>, << 2040, 2040 >>}

\* The server at its widest, for the entity store and the camera: any table
\* over two players, three surface sizes (the last exceeds the world), an
\* idle user, no image request answered.
StoreTables == PlayerTablesOver({"p1", "p2"}, Positions, {"up"})

StoreEnv ==
    [keys |-> {},
     clicks |-> {},
     sizes |-> {<< 800, 600 >>, << 1000, 700 >>, << 4000, 3000 >>},
     assets |-> FALSE,
     messages |->
        JoinResultsOver(StoreTables, {<< >>, [a1 |-> AvatarRecord("a1")]})
        \cup PlayerJoinedOver(
                PlayerRecordsOver("p1", Positions, {"up"})
                    \cup PlayerRecordsOver("p2", Positions, {"up"}),
                {"shipped"})
        \cup PlayersMovedOver(StoreTables)
        \cup PlayerLeftOver({"p1", "p2"})
        \cup OtherMessages]

\* The user at its widest, for the input resolver: three bound keys and an
\* unbound one, clicks inside and outside the world, a server that knows one
\* player, no image request answered.
InputTables == PlayerTablesOver({"p1"}, Positions, {"up"})

InputEnv ==
    [keys |-> {"ArrowUp", "ArrowLeft", "ArrowRight", "KeyA"},
     clicks |-> {<< -50, 3000 >>, << 100, 100 >>, << 700, 500 >>},
     sizes |-> {<< 800, 600 >>, << 4000, 3000 >>},
     assets |-> FALSE,
     messages |->
        JoinResultsOver(InputTables, {[a1 |-> AvatarRecord("a1")]})
        \cup PlayerJoinedOver({PlayerRecord("p1", << 10, 10 >>, "up")}, {"shipped"})
        \cup PlayersMovedOver(InputTables \ {<< >>})
        \cup PlayerLeftOver({"p1"})
        \cup OtherMessages]

\* Every kind of event, image loads included, over small alphabets.
FullEnv ==
    [keys |-> {"ArrowUp", "KeyA"},
     clicks |-> {<< 100, 100 >>},
     sizes |-> {<< 800, 600 >>, << 4000, 3000 >>},
     assets |-> TRUE,
     messages |->
        JoinResultsOver(InputTables, {[a1 |-> AvatarRecord("a1")]})
        \cup PlayerJoinedOver({PlayerRecord("p1", << 10, 10 >>, "up")}, {"shipped"})
        \cup PlayersMovedOver(InputTables \ {<< >>})
        \cup PlayerLeftOver({"p1"})
        \cup OtherMessages]

\* The camera at its widest: one player anywhere on a 3 x 3 grid of the
\* world (corners, edges, middle), surfaces smaller than the world, as large
\* as the world and larger, an idle user, no image request answered.
CameraPositions == {<< x, y >> : x \in {10, 1024, 2040}, y \in {10, 1024, 2040}}

CameraTables == PlayerTablesOver({"p1"}, CameraPositions, {"up"})

CameraEnv ==
    [keys |-> {},
     clicks |-> {},
     sizes |-> {<< 800, 600 >>, << 2048, 2048 >>, << 4000, 3000 >>},
     assets |-> FALSE,
     messages |->
        JoinResultsOver(CameraTables, {[a1 |-> AvatarRecord("a1")]})
        \cup PlayerJoinedOver({PlayerRecord("p1", << 1024, 1024 >>, "up")}, {"shipped"})
        \cup PlayersMovedOver(CameraTables \ {<< >>})
        \cup PlayerLeftOver({"p1"})
        \cup OtherMessages]

\* The renderer's culling at its edges: the local player p1 in one of the two
\* corners, which on the 800 x 600 surface puts the camera at (0, 0) or at
\* (1248, 1448), and a second player one unit inside and one unit outside
\* each edge of the margin around the surface.
EdgePositions ==
    {<< 1216, 1548 >>, << 1215, 1548 >>,     \* screen x = -32, -33 from (1248, 1448)
     << 1348, 1416 >>, << 1348, 1415 >>,     \* screen y = -32, -33 from (1248, 1448)
     << 832, 100 >>, << 833, 100 >>,         \* screen x = 832, 833 from (0, 0)
     << 100, 632 >>, << 100, 633 >>}         \* screen y = 632, 633 from (0, 0)

EdgeTables ==
    {t \in PlayerTablesOver({"p1", "p2"}, Positions \cup EdgePositions, {"up"}) :
        /\ "p1" \in DOMAIN t => << t["p1"].x, t["p1"].y >> \in Positions
        /\ "p2" \in DOMAIN t => << t["p2"].x, t["p2"].y >> \in EdgePositions}

EdgeEnv ==
    [keys |-> {},
     clicks |-> {},
     sizes |-> {<< 800, 600 >>, << 4000, 3000 >>},
     assets |-> FALSE,
     messages |->
        {m \in JoinResultsOver(EdgeTables, {[a1 |-> AvatarRecord("a1")]}) :
            m.success => m.playerId = "p1"}
        \cup PlayerJoinedOver(PlayerRecordsOver("p2", {<< 1216, 1548 >>, << 833, 100 >>},
                                                {"up"}), {"shipped"})
        \cup PlayersMovedOver({t \in EdgeTables : Cardinality(DOMAIN t) = 1})
        \cup PlayerLeftOver({"p1", "p2"})
        \cup OtherMessages]

\* The renderer with images arriving: one player near the origin facing up,
\* right or left, its avatar with and without a "left" sequence, joining
\* players announced with an avatar, with an avatar that has no frames table
\* and with no avatar, an idle user, one surface size.
RenderTables == PlayerTablesOver({"p1"}, {<< 10, 10 >>}, {"up", "right", "left"})

RenderEnv ==
    [keys |-> {},
     clicks |-> {},
     sizes |-> {<< 800, 600 >>},
     assets |-> TRUE,
     messages |->
        JoinResultsOver(RenderTables,
                        {[a1 |-> AvatarRecord("a1")], [a1 |-> AvatarWithLeft("a1")]})
        \cup PlayerJoinedOver(PlayerRecordsOver("p1", {<< 10, 10 >>}, {"up", "left"}),
                              {"shipped", "withLeft", "bare", "none"})
        \cup PlayersMovedOver(RenderTables \ {<< >>})
        \cup PlayerLeftOver({"p1"})
        \cup OtherMessages]

---------------------------------------------------------------------------
(* Initial state: the constructor and init() have run, the channel is      *)
(* connecting, the surface has the size of the window and has been drawn.  *)

InitIn(env) ==
    /\ wsState = "CONNECTING"
    /\ myPlayerId = NullId
    /\ myPlayer = Null
    /\ players = << >>
    /\ avatars = << >>
    /\ viewportX = 0
    /\ viewportY = 0
    /\ \E size \in env.sizes :
          /\ canvasWidth = size[1]
          /\ canvasHeight = size[2]
          /\ drawCalls = draw(<< >>, << >>, 0, 0, size[1], size[2], << >>).calls
    /\ pressedKeys = << >>
    /\ playerCount = 0
    /\ pendingLoads = {}
    /\ worldImageLoaded = FALSE
    /\ assetsOnline = env.assets
    /\ sent = << >>
    /\ threw = FALSE
    /\ lastEvent = [type |-> "init"]
    /\ heldSince = [k \in DOMAIN keyToDirection |-> 0]
    /\ history = [lastKeyCommand |-> "none", joinsSent |-> 0, firstSent |-> "none"]

---------------------------------------------------------------------------
(* The event loop: one handler runs to completion per step. *)

\* Events of the channel
ChannelEvent(env) ==
    \/ OnOpen
    \/ OnError
    \/ OnClose
    \/ \E m \in env.messages : handleServerMessage(m)

\* Events of the keyboard and the pointer
UserEvent(env) ==
    \/ \E code \in env.keys : handleKeyDown(code)
    \/ \E code \in env.keys : handleKeyUp(code)
    \/ \E c \in env.clicks : handleCanvasClick(c[1], c[2])

\* Events of the window
WindowEvent(env) ==
    \E size \in env.sizes : resizeCanvas(size[1], size[2])

\* Completions of image loads
ImageEvent ==
    \/ WorldImageOnload
    \/ \E load \in pendingLoads : ImageOnload(load)

\* The whole client.
Init == InitIn(FullEnv)

Next ==
    \/ ChannelEvent(FullEnv)
    \/ UserEvent(FullEnv)
    \/ WindowEvent(FullEnv)
    \/ ImageEvent

Spec == Init /\ [][Next]_vars

\* The client before a server at its widest, the user idle and no image
\* arriving: the handlers left out write none of the entity tables, the
\* camera and the surface size.
InitStore == InitIn(StoreEnv)

NextStore ==
    \/ ChannelEvent(StoreEnv)
    \/ WindowEvent(StoreEnv)

SpecStore == InitStore /\ [][NextStore]_vars

\* The client before a user at its widest, no image arriving: the image
\* handlers write neither the input state, the channel nor the camera.
InitInput == InitIn(InputEnv)

NextInput ==
    \/ ChannelEvent(InputEnv)
    \/ UserEvent(InputEnv)
    \/ WindowEvent(InputEnv)

SpecInput == InitInput /\ [][NextInput]_vars

\* The client before a server that places one player anywhere on the grid,
\* the user idle and no image arriving.
InitCamera == InitIn(CameraEnv)

NextCamera ==
    \/ ChannelEvent(CameraEnv)
    \/ WindowEvent(CameraEnv)

SpecCamera == InitCamera /\ [][NextCamera]_vars

\* The client before a server that places a second player on the edges of
\* the visible region, the user idle and no image arriving.
InitEdge == InitIn(EdgeEnv)

NextEdge ==
    \/ ChannelEvent(EdgeEnv)
    \/ WindowEvent(EdgeEnv)

SpecEdge == InitEdge /\ [][NextEdge]_vars

\* The client before a server whose players turn, images arriving, the user
\* idle.
InitRender == InitIn(RenderEnv)

NextRender ==
    \/ ChannelEvent(RenderEnv)
    \/ WindowEvent(RenderEnv)
    \/ ImageEvent

SpecRender == InitRender /\ [][NextRender]_vars

---------------------------------------------------------------------------
(* Vocabulary of the properties *)

Clamp(v, lo, hi) == IF v < lo THEN lo ELSE IF v > hi THEN hi ELSE v

MovementKeys == DOMAIN keyToDirection

\* e is the delivery of an inbound message with the given discriminant.
IsMessage(e, action) == e.type = "message" /\ e.message.action = action

\* e is a key event on a bound movement key.
IsMovementKeyEvent(e) == e.type \in {"keydown", "keyup"} /\ e.code \in MovementKeys

IsDirectionalMove(c) == c.action = "move" /\ "direction" \in DOMAIN c

IsPositionalMove(c) == c.action = "move" /\ "x" \in DOMAIN c

\* The keys held according to the history of key events, and the one whose
\* hold is the oldest.
HeldKeys(ranks) == {k \in MovementKeys : ranks[k] > 0}

OldestHeld(ranks) == CHOOSE k \in MovementKeys : ranks[k] = 1

\* The most recent handler has redrawn the surface.
Redrawn == \E c \in drawCalls : c.op = "clearRect"

---------------------------------------------------------------------------
(* Camera *)

C2_CameraTracksLocalPlayer ==
    [][LET centred == centerViewportOnPlayer(players'[myPlayerId'], viewportX,
                          viewportY, canvasWidth', canvasHeight')
       IN  /\ (lastEvent'.type = "resize" /\ myPlayerId' \in DOMAIN players')
                => << viewportX', viewportY' >> = centred
           /\ IsMessage(lastEvent', "players_moved")
                => IF myPlayerId' \in DOMAIN lastEvent'.message.players
                   THEN << viewportX', viewportY' >> = centred
                   ELSE UNCHANGED << viewportX, viewportY >>]_vars

---------------------------------------------------------------------------
(* Input resolver *)

\* C3: the direction carried by each directional move command is the one
\* bound to the earliest-pressed key that is still held (a key-down of a held
\* key does not change its place).  With the channel open: Up then Left held
\* resolves to up; releasing Up while Left is held sends a move with left;
\* releasing Left afterwards sends stop.
C3_FirstPressedWins ==
    [][/\ \A i \in 1..Len(sent') :
            IsDirectionalMove(sent'[i])
                => /\ HeldKeys(heldSince') # {}
                   /\ sent'[i].direction = keyToDirection[OldestHeld(heldSince')]
       /\ (/\ wsState = "OPEN"
           /\ HeldKeys(heldSince) = {"ArrowUp"}
           /\ lastEvent' = [type |-> "keydown", code |-> "ArrowLeft"])
            => sent' = << [action |-> "move", direction |-> "up"] >>
       /\ (/\ wsState = "OPEN"
           /\ HeldKeys(heldSince) = {"ArrowUp", "ArrowLeft"}
           /\ heldSince["ArrowUp"] < heldSince["ArrowLeft"]
           /\ lastEvent' = [type |-> "keyup", code |-> "ArrowUp"])
            => sent' = << [action |-> "move", direction |-> "left"] >>
       /\ (/\ wsState = "OPEN"
           /\ HeldKeys(heldSince) = {"ArrowLeft"}
           /\ lastEvent' = [type |-> "keyup", code |-> "ArrowLeft"])
            => sent' = << [action |-> "stop"] >>]_vars

\* Three keys are held, Left pressed first and Up last; Right has just been
\* pressed again and the move sent carries left.
C3_Witness ==
    /\ lastEvent = [type |-> "keydown", code |-> "ArrowRight"]
    /\ heldSince["ArrowLeft"] = 1
    /\ heldSince["ArrowRight"] = 2
    /\ heldSince["ArrowUp"] = 3
    /\ sent = << [action |-> "move", direction |-> "left"] >>

\* C4: while the channel is open each movement key event produces exactly
\* one command: a key-down, or a key-up that leaves a movement key held,
\* sends a directional move, also when the direction is the one already
\* sent; a key-up that empties the held keys sends stop; a key event on
\* another key sends nothing and changes no state.
C4_OneCommandPerKeyEvent ==
    [][/\ (wsState = "OPEN" /\ IsMovementKeyEvent(lastEvent'))
            => /\ Len(sent') = 1
               /\ IF lastEvent'.type = "keydown" \/ HeldKeys(heldSince') # {}
                  THEN IsDirectionalMove(sent'[1])
                  ELSE sent'[1] = [action |-> "stop"]
       /\ (lastEvent'.type \in {"keydown", "keyup"} /\ lastEvent'.code \notin MovementKeys)
            => /\ sent' = << >>
               /\ UNCHANGED << wsState, myPlayerId, myPlayer, players, avatars,
                               viewportX, viewportY, canvasWidth, canvasHeight,
                               pressedKeys, playerCount, pendingLoads,
                               worldImageLoaded, heldSince, history >>]_vars

\* Left goes down while Up, pressed first, is held: the direction is still
\* up and a move carrying it has gone out again.
C4_Witness ==
    /\ wsState = "OPEN"
    /\ lastEvent = [type |-> "keydown", code |-> "ArrowLeft"]
    /\ heldSince["ArrowUp"] = 1
    /\ heldSince["ArrowLeft"] = 2
    /\ sent = << [action |-> "move", direction |-> "up"] >>

\* C8: every positional move sent for a click carries x in [0, worldWidth]
\* and y in [0, worldHeight], the click's world coordinate (screen coordinate
\* plus viewport offset) clamped per axis, whatever keys are held; a click at
\* world (-50, 3000) sends (0, 2048).
C8_ClickClamped ==
    /\ \A i \in 1..Len(sent) :
          IsPositionalMove(sent[i])
              => /\ sent[i].x \in 0..worldWidth
                 /\ sent[i].y \in 0..worldHeight
    /\ (lastEvent.type = "click" /\ wsState = "OPEN")
          => sent = << [action |-> "move",
                        x |-> Clamp(lastEvent.x + viewportX, 0, worldWidth),
                        y |-> Clamp(lastEvent.y + viewportY, 0, worldHeight)] >>
    /\ (/\ lastEvent.type = "click"
        /\ wsState = "OPEN"
        /\ lastEvent.x + viewportX = -50
        /\ lastEvent.y + viewportY = 3000)
          => sent = << [action |-> "move", x |-> 0, y |-> 2048] >>

\* A click at world (-50, 3000) with a key held has sent (0, 2048).
C8_Witness ==
    /\ lastEvent.type = "click"
    /\ lastEvent.x + viewportX = -50
    /\ lastEvent.y + viewportY = 3000
    /\ pressedKeys # << >>
    /\ sent = << [action |-> "move", x |-> 0, y |-> 2048] >>

\* A click whose world coordinate lies inside the world, the viewport
\* scrolled away from the origin.
C8_WitnessScrolled ==
    /\ lastEvent.type = "click"
    /\ viewportX > 0
    /\ Len(sent) = 1
    /\ sent[1].x = lastEvent.x + viewportX

\* C10: nothing is sent while the channel is not open: a key or click event
\* arriving while connecting or after close or error sends nothing and raises
\* nothing, and a closed channel is never opened again.
C10_NoSendUnlessOpen ==
    [][/\ sent' # << >> => wsState' = "OPEN"
       /\ (wsState' # "OPEN" /\ lastEvent'.type \in {"keydown", "keyup", "click"})
            => sent' = << >> /\ ~threw'
       /\ wsState = "CLOSED" => wsState' = "CLOSED"]_vars

\* A movement key has gone down after the channel closed: it is held and
\* nothing has been sent.
C10_Witness ==
    /\ wsState = "CLOSED"
    /\ lastEvent = [type |-> "keydown", code |-> "ArrowUp"]
    /\ pressedKeys = << "ArrowUp" >>
    /\ sent = << >>

---------------------------------------------------------------------------
(* Entity store *)

\* C5: after a successful join result carrying player table P and avatar
\* table A, the player table is P and the avatar table is A exactly, whatever
\* the store held before.
C5_SnapshotReplaces ==
    [][(IsMessage(lastEvent', "join_game") /\ lastEvent'.message.success)
        => /\ players' = lastEvent'.message.players
           /\ avatars' = lastEvent'.message.avatars]_vars

\* A join result with one player and no avatar has been applied, and the
\* store holds that player and no avatar.
C5_Witness ==
    /\ IsMessage(lastEvent, "join_game")
    /\ lastEvent.message.success
    /\ DOMAIN lastEvent.message.players = {"p2"}
    /\ lastEvent.message.avatars = << >>
    /\ DOMAIN players = {"p2"}
    /\ avatars = << >>

\* C6: a players_moved message with mapping M replaces, for each id in M,
\* the whole stored record by M[id] and leaves the record of every other id
\* unchanged; the avatar table and the local player id are unchanged.
C6_MergeIsPartial ==
    [][IsMessage(lastEvent', "players_moved")
        => LET M == lastEvent'.message.players
           IN  /\ DOMAIN players' = DOMAIN players \cup DOMAIN M
               /\ \A id \in DOMAIN M : players'[id] = M[id]
               /\ \A id \in DOMAIN players \ DOMAIN M : players'[id] = players[id]
               /\ UNCHANGED << avatars, myPlayerId >>]_vars

\* A batch for p2 alone has been applied to a store that holds p1 too, p1 in
\* the other corner.
C6_Witness ==
    /\ IsMessage(lastEvent, "players_moved")
    /\ DOMAIN lastEvent.message.players = {"p2"}
    /\ DOMAIN players = {"p1", "p2"}
    /\ players["p2"] = lastEvent.message.players["p2"]
    /\ players["p1"].x # players["p2"].x

\* C7: a player_left message for an id that is not in the player table
\* leaves the table unchanged, one for a present id removes exactly that
\* entry, and the id is absent afterwards, so that the same message applied
\* again changes nothing.
C7_RemovalIdempotent ==
    [][IsMessage(lastEvent', "player_left")
        => LET id == lastEvent'.message.playerId
           IN  /\ DOMAIN players' = DOMAIN players \ {id}
               /\ \A k \in DOMAIN players' : players'[k] = players[k]
               /\ id \notin DOMAIN players => players' = players
               /\ DeleteKey(players', id) = players']_vars

\* p2 has left and p1 is still in the table.
C7_Witness ==
    /\ IsMessage(lastEvent, "player_left")
    /\ lastEvent.message.playerId = "p2"
    /\ DOMAIN players = {"p1"}
    /\ playerCount = 1

---------------------------------------------------------------------------
(* Renderer *)

\* The avatar named by the player is in the avatar table and has a frame for
\* the player's facing and animationFrame.
HasFrame(player, av) ==
    /\ player.avatar \in DOMAIN av
    /\ av[player.avatar].hasFrames
    /\ player.facing \in DOMAIN av[player.avatar].frames
    /\ player.animationFrame + 1 \in DOMAIN av[player.avatar].frames[player.facing]

\* The avatar is absent from the table, or has a frames table without the
\* frame.
LacksAsset(player, av) ==
    \/ player.avatar \notin DOMAIN av
    \/ av[player.avatar].hasFrames /\ ~HasFrame(player, av)

\* C9: in a redraw, a visible player whose avatar name is absent from the
\* avatar table, or whose frame is absent, produces no draw call at all,
\* neither sprite nor username label, and the redraw raises nothing.
C9_NoDrawForMissingAsset ==
    Redrawn =>
        \A id \in DOMAIN players :
            (/\ isInViewport(viewportX, viewportY, canvasWidth, canvasHeight,
                             players[id].x, players[id].y)
             /\ LacksAsset(players[id], avatars))
                => /\ ~threw
                   /\ ~\E c \in drawCalls : c.op \in {"label", "sprite"} /\ c.id = id

---------------------------------------------------------------------------
(* Camera, continued *)

\* The handler that has just run recentres the camera: a surface resize or a
\* successful join result, with a local player record bound.
Recentred(e, mp) ==
    /\ mp # Null
    /\ \/ e.type = "resize"
       \/ IsMessage(e, "join_game") /\ e.message.success

\* C11: recentring on a player at (px, py) with surface w x h in a world
\* W x H yields viewportX = clamp(px - w/2, 0, max(0, W - w)) and
\* viewportY = clamp(py - h/2, 0, max(0, H - h)), which is 0 when the world
\* is smaller than the surface; with world 2048 x 2048 and surface 800 x 600
\* a player at (10, 10) gives (0, 0) and one at (2040, 2040) gives
\* (1248, 1448).
C11_RecenterFormula ==
    [][Recentred(lastEvent', myPlayer')
        => /\ viewportX' = Clamp(myPlayer'.x - canvasWidth' \div 2, 0,
                                 MathMax(0, worldWidth - canvasWidth'))
           /\ viewportY' = Clamp(myPlayer'.y - canvasHeight' \div 2, 0,
                                 MathMax(0, worldHeight - canvasHeight'))
           /\ worldWidth < canvasWidth' => viewportX' = 0
           /\ worldHeight < canvasHeight' => viewportY' = 0
           /\ (canvasWidth' = 800 /\ canvasHeight' = 600)
                => /\ (myPlayer'.x = 10 /\ myPlayer'.y = 10)
                        => << viewportX', viewportY' >> = << 0, 0 >>
                   /\ (myPlayer'.x = 2040 /\ myPlayer'.y = 2040)
                        => << viewportX', viewportY' >> = << 1248, 1448 >>]_vars

\* A join result has bound a player at (2040, 2040) on an 800 x 600 surface
\* and the camera stands at (1248, 1448).
C11_Witness ==
    /\ IsMessage(lastEvent, "join_game")
    /\ canvasWidth = 800
    /\ canvasHeight = 600
    /\ myPlayer # Null
    /\ myPlayer.x = 2040
    /\ myPlayer.y = 2040
    /\ << viewportX, viewportY >> = << 1248, 1448 >>

\* A recentring that no bound touches: the player in the middle of the world.
C11_WitnessMiddle ==
    /\ lastEvent.type = "resize"
    /\ canvasWidth = 800
    /\ myPlayer # Null
    /\ myPlayer.x = 1024
    /\ myPlayer.y = 10
    /\ << viewportX, viewportY >> = << 624, 0 >>

\* A recentring on a surface larger than the world.
C11_WitnessLargeSurface ==
    /\ lastEvent.type = "resize"
    /\ canvasWidth = 4000
    /\ myPlayer # Null
    /\ myPlayer.x = 2040
    /\ << viewportX, viewportY >> = << 0, 0 >>

---------------------------------------------------------------------------
(* Renderer, continued *)

\* The screen position of the stored player id under the current camera.
ScreenOf(id) == << players[id].x - viewportX, players[id].y - viewportY >>

\* The screen position lies in the surface widened by a margin of 32 on
\* every side, bounds included.
WithinMargin(pos) ==
    /\ pos[1] \in (-32)..(canvasWidth + 32)
    /\ pos[2] \in (-32)..(canvasHeight + 32)

\* The redraw has reached player id: its username label is among the calls.
Labelled(id) == \E c \in drawCalls : c.op = "label" /\ c.id = id

\* C12: a world point is treated as visible, and its player considered for
\* drawing, if and only if its screen position lies in
\* [-32, surfaceWidth + 32] x [-32, surfaceHeight + 32], bounds included
\* (32 being the avatar size): screen (-32, 100) is visible, (-33, 100) is
\* not, and a redraw draws nothing for a player that fails the test.
C12_VisibilityMargin ==
    /\ avatarSize = 32
    /\ \A id \in DOMAIN players :
          isInViewport(viewportX, viewportY, canvasWidth, canvasHeight,
                       players[id].x, players[id].y) <=> WithinMargin(ScreenOf(id))
    /\ (Redrawn /\ ~threw)
          => \A id \in DOMAIN players :
                /\ Labelled(id) <=> WithinMargin(ScreenOf(id))
                /\ ScreenOf(id) = << -32, 100 >> => Labelled(id)
                /\ ScreenOf(id) = << -33, 100 >> => ~Labelled(id)
                /\ ~WithinMargin(ScreenOf(id))
                      => ~\E c \in drawCalls : c.op \in {"label", "sprite"} /\ c.id = id

\* A redraw with the second player at screen (-32, 100): it is drawn.
C12_Witness ==
    /\ Redrawn
    /\ "p2" \in DOMAIN players
    /\ ScreenOf("p2") = << -32, 100 >>
    /\ Labelled("p2")

\* A redraw with the second player at screen (-33, 100): it is not drawn,
\* while the local player is.
C12_WitnessOutside ==
    /\ Redrawn
    /\ DOMAIN players = {"p1", "p2"}
    /\ ScreenOf("p2") = << -33, 100 >>
    /\ ~Labelled("p2")
    /\ Labelled("p1")

\* The far edges: screen x = surface width + 32 is drawn, one more is not.
C12_WitnessFarEdge ==
    /\ Redrawn
    /\ "p2" \in DOMAIN players
    /\ ScreenOf("p2") = << canvasWidth + 32, 100 >>
    /\ Labelled("p2")

C12_WitnessBeyondFarEdge ==
    /\ Redrawn
    /\ "p2" \in DOMAIN players
    /\ ScreenOf("p2") = << 100, canvasHeight + 33 >>
    /\ ~Labelled("p2")

---------------------------------------------------------------------------
(* Session protocol *)

\* e is the delivery of a message the protocol ignores: a rejected join, or
\* a discriminant outside the four that are consumed.
IsIgnoredMessage(e) ==
    /\ e.type = "message"
    /\ \/ e.message.action = "join_game" /\ ~e.message.success
       \/ e.message.action \notin {"join_game", "player_joined", "players_moved",
                                   "player_left"}

\* C13: an inbound message that is a join result with success = false, or
\* whose discriminant is none of join_game, player_joined, players_moved,
\* player_left, leaves the local player id, the player table, the avatar
\* table and the viewport unchanged and sends nothing.
C13_IgnoredMessagesAreNoOps ==
    [][IsIgnoredMessage(lastEvent')
        => /\ UNCHANGED << myPlayerId, players, avatars, viewportX, viewportY >>
           /\ sent' = << >>]_vars

\* A rejected join has arrived in a session that has joined: the store
\* still holds two players and an avatar, the camera is off the origin.
C13_Witness ==
    /\ IsMessage(lastEvent, "join_game")
    /\ ~lastEvent.message.success
    /\ myPlayerId = "p1"
    /\ DOMAIN players = {"p1", "p2"}
    /\ DOMAIN avatars = {"a1"}
    /\ viewportX > 0

\* A message with an unknown discriminant has arrived in such a session.
C13_WitnessUnknown ==
    /\ IsMessage(lastEvent, "chat")
    /\ myPlayerId = "p2"
    /\ DOMAIN players = {"p1", "p2"}
    /\ viewportY > 0

---------------------------------------------------------------------------
(* Renderer: sprites *)

\* The frame sequence the sprite of a player is to be taken from: the
\* "right" sequence for a player facing left, the sequence of its own facing
\* otherwise.
SpriteSequence(player) == IF player.facing = "left" THEN "right" ELSE player.facing

\* The avatar of the player is in the table and holds the frame the sprite
\* is to be taken from.
HasSprite(player, av) ==
    /\ player.avatar \in DOMAIN av
    /\ av[player.avatar].hasFrames
    /\ SpriteSequence(player) \in DOMAIN av[player.avatar].frames
    /\ player.animationFrame + 1
          \in DOMAIN av[player.avatar].frames[SpriteSequence(player)]

\* C14: in a redraw, a player whose facing is "left" is drawn horizontally
\* mirrored using the avatar's "right" frame sequence, and a player with any
\* other facing is drawn unmirrored from the frame sequence of its own
\* facing: a redraw starts the load of that frame for every visible player
\* whose avatar holds it, and the sprite drawn when the load completes is
\* mirrored exactly for a player facing left.
C14_LeftFacingMirrored ==
    /\ (Redrawn /\ ~threw /\ assetsOnline /\ pendingLoads = {})
          => \A id \in DOMAIN players :
                ~(/\ WithinMargin(ScreenOf(id))
                  /\ HasSprite(players[id], avatars))
    /\ \A load \in pendingLoads :
          HasSprite(load.player, avatars)
              => load.src = avatars[load.player.avatar].frames[SpriteSequence(load.player)]
                                                              [load.player.animationFrame + 1]
    /\ lastEvent.type = "imgload"
          => \A c \in drawCalls :
                c.op = "sprite" => (c.mirrored <=> lastEvent.load.player.facing = "left")

---------------------------------------------------------------------------
(* Input resolver, continued *)

\* C15: the input resolver is always in one of its two states, under any
\* interleaving of key events with channel open and close: either no
\* movement key is held and the last key-driven command sent (directional
\* move or stop) is a stop or none, or at least one movement key is held and
\* the last key-driven command sent is a directional move.
C15_IdleOrMoving ==
    \/ /\ HeldKeys(heldSince) = {}
       /\ history.lastKeyCommand \in {"stop", "none"}
    \/ /\ HeldKeys(heldSince) # {}
       /\ history.lastKeyCommand = "move"

---------------------------------------------------------------------------
(* Session protocol: failures *)

\* C16: no inbound message makes a handler fail: for every message, one that
\* omits an optional payload field included (a player_joined without an
\* avatar, a player whose avatar record has no frames), the handling and the
\* redraw it triggers complete without raising.
C16_NoHandlerRaises ==
    lastEvent.type = "message" => ~threw

\* C17: the local player id is bound at most once per session: once
\* myPlayerId has been set by a successful join result it never changes,
\* whatever further messages, further join results included, arrive.
C17_PlayerIdBoundOnce ==
    [][myPlayerId # NullId => myPlayerId' = myPlayerId]_vars

---------------------------------------------------------------------------
(* Renderer: image loads *)

\* C18: what is on the drawing surface always comes from the current entity
\* store: the redraw that ends a message's handling shows the store as that
\* message and all earlier ones have left it, and under every interleaving
\* of image-load completions with later messages and redraws, each sprite
\* drawn belongs to a player that is in the store at that moment and is
\* placed at that player's current screen position.
C18_DrawsReflectCurrentStore ==
    /\ (Redrawn /\ ~threw)
          => /\ \A id \in DOMAIN players :
                   WithinMargin(ScreenOf(id))
                       => \E c \in drawCalls :
                             /\ c.op = "label"
                             /\ c.id = id
                             /\ c.text = players[id].username
                             /\ << c.x, c.y + avatarSize + 5 >> = ScreenOf(id)
             /\ \A c \in drawCalls : c.op = "label" => c.id \in DOMAIN players
    /\ \A c \in drawCalls :
          c.op = "sprite"
              => /\ c.id \in DOMAIN players
                 /\ << c.x, c.y >> = ScreenOf(c.id)

---------------------------------------------------------------------------
(* Entity store: the player count *)

\* C19: after the handling of every inbound message the displayed player
\* count equals the number of entries in the player table; it reads 2 after
\* a join with two players and 1 after the other player has left.
C19_CountMatchesTable ==
    /\ lastEvent.type = "message" => playerCount = Cardinality(DOMAIN players)
    /\ (/\ IsMessage(lastEvent, "join_game")
        /\ lastEvent.message.success
        /\ Cardinality(DOMAIN lastEvent.message.players) = 2)
          => playerCount = 2
    /\ (/\ IsMessage(lastEvent, "player_left")
        /\ myPlayerId \in DOMAIN players
        /\ Cardinality(DOMAIN players) = 1)
          => playerCount = 1

---------------------------------------------------------------------------
(* Session protocol: the join request *)

\* The messages of the most recent handler that are commands: directional
\* moves, positional moves and stops.
CommandsSent == {i \in 1..Len(sent) : sent[i].action \in {"move", "stop"}}

\* C20: one join request, with the fixed display name, is sent per session:
\* it is sent at channel-open, it is never sent again, and it precedes every
\* move, positional move and stop command on the channel, under any
\* interleaving of input events with the channel's lifecycle events.  (A
\* channel that fails before it opens carries nothing at all.)
C20_OneJoinRequestFirst ==
    /\ history.joinsSent <= 1
    /\ wsState = "OPEN" => history.joinsSent = 1
    /\ lastEvent.type = "open"
          => sent = << [action |-> "join_game", username |-> "Rita"] >>
    /\ \A i \in 1..Len(sent) :
          sent[i].action = "join_game"
              => /\ lastEvent.type = "open"
                 /\ sent[i].username = "Rita"
    /\ history.firstSent \in {"none", "join_game"}
    /\ CommandsSent # {}
          => /\ history.joinsSent = 1
             /\ history.firstSent = "join_game"
             /\ \A i \in CommandsSent : \A j \in 1..Len(sent) :
                   sent[j].action = "join_game" => j < i

\* A key was pressed while the channel was connecting and is still held;
\* the channel has opened since, the join request went out first, and a
\* click has now sent a positional move.
C20_Witness ==
    /\ lastEvent.type = "click"
    /\ Len(sent) = 1
    /\ IsPositionalMove(sent[1])
    /\ pressedKeys # << >>
    /\ history.lastKeyCommand = "none"
    /\ history.joinsSent = 1
    /\ history.firstSent = "join_game"

\* The channel has closed after a stop command: one join request was sent.
C20_WitnessClosed ==
    /\ wsState = "CLOSED"
    /\ history.lastKeyCommand = "stop"
    /\ history.joinsSent = 1

====
